---- MODULE Spec2Model ----
(***************************************************************************)
(* Model of the whistle proxy rule parser (src/src/lib.rs) and of its      *)
(* markdown segmenter (src/src/markdown_values.rs).                        *)
(*                                                                         *)
(* A string is a sequence of characters; a character is a one-element      *)
(* token written as a TLA+ string.  The parsers are nom combinator         *)
(* pipelines; each combinator is translated by what it does on a complete  *)
(* input: it returns Ok(rest, value), a recoverable Err(kind), or the call *)
(* panics (an unwrap / expect on a failure), which unwinds through every   *)
(* caller.                                                                 *)
(***************************************************************************)
EXTENDS Integers, Sequences, FiniteSets

VARIABLES
    pieces,   \* the pieces of text the caller has put together so far
    pc,       \* "compose", "parsed" (parse_markdown returned) or "done"
    op,       \* the entry point that was called
    arg,      \* the string it was called with
    result,   \* what it returned
    parts     \* what into_parts made of a parsed document

vars == <<pieces, pc, op, arg, result, parts>>

(***************************************************************************)
(* Characters.                                                             *)
(***************************************************************************)
\* the backtick cannot be written inside a TLA+ string
BT == "<bt>"
\* U+0120, a letter whose low byte is 0x20
U0120 == "<U+0120>"
\* U+000B, the vertical tab
VT == "<vt>"

\* char::is_whitespace: the Unicode White_Space characters of the alphabets
is_whitespace(c) == c \in {" ", "\t", "\n", "\r", "\f", VT}

\* nom multispace0 / multispace1: space, tab, carriage return, line feed
is_multispace(c) == c \in {" ", "\t", "\r", "\n"}

Lower ==
    <<"a", "b", "c", "d", "e", "f", "g", "h", "i", "j", "k", "l", "m",
      "n", "o", "p", "q", "r", "s", "t", "u", "v", "w", "x", "y", "z">>

Upper ==
    <<"A", "B", "C", "D", "E", "F", "G", "H", "I", "J", "K", "L", "M",
      "N", "O", "P", "Q", "R", "S", "T", "U", "V", "W", "X", "Y", "Z">>

Digit == <<"0", "1", "2", "3", "4", "5", "6", "7", "8", "9">>

Punct ==
    <<" ", "!", "\"", "#", "$", "%", "&", "'", "(", ")", "*", "+", ",",
      "-", ".", "/">>

Range(f) == {f[i] : i \in DOMAIN f}

IndexOf(f, c) == CHOOSE i \in DOMAIN f : f[i] = c

\* char::is_alphanumeric on the characters of the alphabets
is_alphanumeric(c) == c \in Range(Lower) \cup Range(Upper) \cup Range(Digit) \cup {U0120}

\* the code point of a character
CodePoint(c) ==
    CASE c \in Range(Lower) -> 96 + IndexOf(Lower, c)
      [] c \in Range(Upper) -> 64 + IndexOf(Upper, c)
      [] c \in Range(Digit) -> 47 + IndexOf(Digit, c)
      [] c \in Range(Punct) -> 31 + IndexOf(Punct, c)
      [] c = "\t" -> 9
      [] c = "\n" -> 10
      [] c = VT -> 11
      [] c = "\f" -> 12
      [] c = "\r" -> 13
      [] c = ":" -> 58
      [] c = "=" -> 61
      [] c = "?" -> 63
      [] c = "\\" -> 92
      [] c = BT -> 96
      [] c = "{" -> 123
      [] c = "}" -> 125
      [] c = U0120 -> 288

\* c as u8: the code point truncated to eight bits
as_u8(c) == CodePoint(c) % 256

\* nom::character::is_space on a byte: space or tab
is_space(b) == b = 32 \/ b = 9

(***************************************************************************)
(* Strings.                                                                *)
(***************************************************************************)
Take(s, n) == SubSeq(s, 1, n)

Drop(s, n) == SubSeq(s, n + 1, Len(s))

StartsWith(s, p) == Len(p) <= Len(s) /\ Take(s, Len(p)) = p

EndsWith(s, p) == Len(p) <= Len(s) /\ Drop(s, Len(s) - Len(p)) = p

MinOf(S) == CHOOSE m \in S : \A n \in S : m <= n

\* the offset of the first occurrence of p in s, or -1
FindSub(s, p) ==
    LET at == {i \in 0..(Len(s) - Len(p)) : StartsWith(Drop(s, i), p)}
    IN  IF at = {} THEN -1 ELSE MinOf(at)

\* take_while: the length of the longest prefix whose characters all pass,
\* given for each position whether its character passes
PrefixLen(passes) ==
    LET bad == {i \in DOMAIN passes : ~passes[i]}
    IN  IF bad = {} THEN Len(passes) ELSE MinOf(bad) - 1

RECURSIVE Flatten(_)
Flatten(ss) == IF ss = <<>> THEN <<>> ELSE Head(ss) \o Flatten(Tail(ss))

(***************************************************************************)
(* Results of a parser: IResult<&str, T>, or a panic.                      *)
(***************************************************************************)
Ok(rest, val) == [tag |-> "Ok", rest |-> rest, val |-> val, kind |-> ""]

Err(kind) == [tag |-> "Err", rest |-> <<>>, val |-> <<>>, kind |-> kind]

Panic == [tag |-> "Panic", rest |-> <<>>, val |-> <<>>, kind |-> ""]

IsOk(r) == r.tag = "Ok"

None == [tag |-> "None", rest |-> <<>>, val |-> <<>>, kind |-> ""]

(***************************************************************************)
(* URI grammar.                                                            *)
(***************************************************************************)
Uri(scheme, host, path, query) ==
    [scheme |-> scheme, host |-> host, path |-> path, query |-> query]

not_slash(c) == c # "/"

not_question(c) == c # "?"

not_whitespace(c) == ~is_whitespace(c)

\* opt(terminated(take_while1(is_alphanumeric), tag("://"))): the length of
\* the scheme, or 0 when the option matched nothing
scheme_len(input) ==
    LET n == PrefixLen([k \in DOMAIN input |-> is_alphanumeric(input[k])])
    IN  IF n >= 1 /\ StartsWith(Drop(input, n), <<":", "/", "/">>)
        THEN n ELSE 0

\* the four parsers of the tuple, each on what the one before left:
\* opt(scheme), opt(take_while1(c != '/')), take_while(c != '?') and
\* take_while(!is_whitespace)
uri_query(scheme, host, path, i3, n4) ==
    Ok(Drop(i3, n4), Uri(scheme, host, path, Take(i3, n4)))

uri_path(scheme, host, i2, n3) ==
    uri_query(scheme, host, Take(i2, n3), Drop(i2, n3),
              PrefixLen([k \in 1..(Len(i2) - n3) |->
                            not_whitespace(i2[n3 + k])]))

\* uri_host with a path that runs to the end of the token
uri_host_path_takes_query(scheme, i1, n2) ==
    uri_query(scheme, Take(i1, n2), Drop(i1, n2), <<>>, 0)

uri_host(scheme, i1, n2) ==
    uri_path(scheme, Take(i1, n2), Drop(i1, n2),
             PrefixLen([k \in 1..(Len(i1) - n2) |->
                           not_question(i1[n2 + k])]))

uri_scheme(input, n1, i1) ==
    uri_host(Take(input, n1), i1,
             PrefixLen([k \in DOMAIN i1 |-> not_slash(i1[k])]))

parse_uri(input) ==
    uri_scheme(input, scheme_len(input),
               IF scheme_len(input) > 0
               THEN Drop(input, scheme_len(input) + 3) ELSE input)

\* all_consuming(f): f must leave nothing
all_consuming(r) ==
    IF IsOk(r) /\ r.rest # <<>> THEN Err("Eof") ELSE r

\* preceded(multispace0, take_till1(is_whitespace))
get_part(input) ==
    LET i1 == Drop(input, PrefixLen([k \in DOMAIN input |-> is_multispace(input[k])]))
        n == PrefixLen([k \in DOMAIN i1 |-> not_whitespace(i1[k])])
    IN  IF n = 0 THEN Err("TakeTill1") ELSE Ok(Drop(i1, n), Take(i1, n))

(***************************************************************************)
(* Template lexer.                                                         *)
(***************************************************************************)
RawString(s) == [kind |-> "RawString", s |-> s]

Value(s) == [kind |-> "Value", s |-> s]

\* tag("\\") then none_of("\\")
parse_escaped(input) ==
    IF ~StartsWith(input, <<"\\">>) THEN Err("Tag")
    ELSE IF Len(input) < 2 \/ input[2] = "\\" THEN Err("NoneOf")
    ELSE Ok(Drop(input, 2), RawString(<<input[2]>>))

\* preceded(tag("${"), terminated(take_until("}"), tag("}")))
parse_interpolation(input) ==
    IF ~StartsWith(input, <<"$", "{">>) THEN Err("Tag")
    ELSE LET body == Drop(input, 2)
             n == FindSub(body, <<"}">>)
         IN  IF n < 0 THEN Err("TakeUntil")
             ELSE Ok(Drop(body, n + 1), Value(Take(body, n)))

\* take_until("${")
parse_literal_run(input) ==
    LET n == FindSub(input, <<"$", "{">>)
    IN  IF n < 0 THEN Err("TakeUntil")
        ELSE Ok(Drop(input, n), RawString(Take(input, n)))

\* alt: the first result that is not a recoverable error, else the last
alt(first, second) == IF first.tag = "Err" THEN second ELSE first

\* alt((parse_escaped, interpolation, literal run))
template_part(input) ==
    alt(parse_escaped(input),
        alt(parse_interpolation(input), parse_literal_run(input)))

\* many0(template_part): stops at the first recoverable error, and fails
\* when a part succeeds without consuming; r is the part parsed at input
RECURSIVE many0_template(_, _), many0_template_step(_, _, _)
many0_template_step(input, acc, r) ==
    IF ~IsOk(r) THEN Ok(input, acc)
    ELSE IF Len(r.rest) = Len(input) THEN Err("Many0")
    ELSE many0_template(r.rest, Append(acc, r.val))

many0_template(input, acc) ==
    many0_template_step(input, acc, template_part(input))

parse_template_string(input) ==
    IF StartsWith(input, <<"(">>)
    THEN LET i1 == Drop(input, 1)
         IN  IF EndsWith(i1, <<")">>)
             THEN many0_template(Take(i1, Len(i1) - 1), <<>>)
             ELSE Panic
    ELSE many0_template(input, <<>>)

\* Result::unwrap: the value, or a panic on any failure
unwrap(r) == IF IsOk(r) THEN r ELSE Panic

(***************************************************************************)
(* Rule-value grammar.                                                     *)
(***************************************************************************)
OpValue(kind, s, ps) == [kind |-> kind, s |-> s, parts |-> ps]

\* delimited(char(open), take_while(c != ' ' && c != '\t' && c != close),
\* char(close)): Ok(rest, interior) or a recoverable error
delimited(open, close, input) ==
    IF ~StartsWith(input, <<open>>) THEN Err("Char")
    ELSE LET i1 == Drop(input, 1)
             bad == {i \in 1..Len(i1) : i1[i] \in {" ", "\t", close}}
             n == IF bad = {} THEN Len(i1) ELSE MinOf(bad) - 1
         IN  IF StartsWith(Drop(i1, n), <<close>>)
             THEN Ok(Drop(i1, n + 1), Take(i1, n))
             ELSE Err("Char")

not_is_space(c) == ~is_space(as_u8(c))

\* take_while(|c| !is_space(c as u8))
raw_value(input) ==
    LET n == PrefixLen([k \in DOMAIN input |-> not_is_space(input[k])])
    IN  Ok(Drop(input, n), OpValue("Raw", Take(input, n), <<>>))

\* |s| OpValue::TemplateString(parse_template_string(s).unwrap().1), where
\* ts is the unwrapped result
template_value(rest, ts) ==
    IF IsOk(ts) THEN Ok(rest, OpValue("TemplateString", <<>>, ts.val))
    ELSE Panic

\* map(delimited(...), ...): d is what delimited returned
map_template(d) ==
    IF IsOk(d)
    THEN template_value(d.rest, unwrap(parse_template_string(d.val)))
    ELSE d

map_inline(d) ==
    IF IsOk(d) THEN Ok(d.rest, OpValue("Inline", d.val, <<>>)) ELSE d

map_value(d) ==
    IF IsOk(d) THEN Ok(d.rest, OpValue("Value", d.val, <<>>)) ELSE d

parse_rule_value(input) ==
    alt(map_template(delimited(BT, BT, input)),
        alt(map_inline(delimited("(", ")", input)),
            alt(map_value(delimited("{", "}", input)),
                raw_value(input))))

(***************************************************************************)
(* Rule grammar.                                                           *)
(***************************************************************************)
Rule(name, value) == [name |-> name, value |-> value]

\* let (_, value) = value?; then the rule
rule_of(name, rest, value) ==
    IF IsOk(value) THEN Ok(rest, Rule(name, value.val)) ELSE value

\* map(take_while(!is_whitespace), parse_rule_value) on what follows ://
rule_value_token(name, i2, m) ==
    rule_of(name, Drop(i2, m), parse_rule_value(Take(i2, m)))

\* terminated(take_while1(is_alphanumeric), tag("://")) with a name of n
\* characters, then the value
rule_name(input, n) ==
    IF n = 0 THEN Err("TakeWhile1")
    ELSE IF ~StartsWith(Drop(input, n), <<":", "/", "/">>) THEN Err("Tag")
    ELSE rule_value_token(
             Take(input, n), Drop(input, n + 3),
             PrefixLen([k \in 1..(Len(input) - n - 3) |->
                           not_whitespace(input[n + 3 + k])]))

parse_rule(input) ==
    rule_name(input,
              PrefixLen([k \in DOMAIN input |-> is_alphanumeric(input[k])]))

(***************************************************************************)
(* Proxy-rule grammar.                                                     *)
(***************************************************************************)
ProxyRule(source, target, rules) ==
    [source |-> source, target |-> target, rules |-> rules]

\* take_while1(is_whitespace)
whitespace(input) ==
    LET n == PrefixLen([k \in DOMAIN input |-> is_whitespace(input[k])])
    IN  IF n = 0 THEN Err("TakeWhile1") ELSE Ok(Drop(input, n), Take(input, n))

\* take_while1(!is_whitespace)
not_space(input) ==
    LET n == PrefixLen([k \in DOMAIN input |-> not_whitespace(input[k])])
    IN  IF n = 0 THEN Err("TakeWhile1") ELSE Ok(Drop(input, n), Take(input, n))

\* |s| parse_rule(s).unwrap().1, where r is the unwrapped result
unwrapped_rule(rest, r) == IF IsOk(r) THEN Ok(rest, r.val) ELSE Panic

\* map(not_space, |s| parse_rule(s).unwrap().1): t is what not_space
\* returned
map_rule(t) ==
    IF IsOk(t) THEN unwrapped_rule(t.rest, unwrap(parse_rule(t.val))) ELSE t

rule_element(input) == map_rule(not_space(input))

\* separated_list0(whitespace, rule_element) after its first element: sep
\* is what the separator returned at input, e the element after it
RECURSIVE separated_rules(_, _), separated_rules_element(_, _, _),
          separated_rules_sep(_, _, _)
separated_rules_element(input, acc, e) ==
    IF e.tag = "Panic" THEN Panic
    ELSE IF ~IsOk(e) THEN Ok(input, acc)
    ELSE separated_rules(e.rest, Append(acc, e.val))

separated_rules_sep(input, acc, sep) ==
    IF ~IsOk(sep) THEN Ok(input, acc)
    ELSE separated_rules_element(input, acc, rule_element(sep.rest))

separated_rules(input, acc) ==
    separated_rules_sep(input, acc, whitespace(input))

\* separated_list0: its first element e, parsed at input
separated_list0(input, e) ==
    IF e.tag = "Panic" THEN Panic
    ELSE IF ~IsOk(e) THEN Ok(input, <<>>)
    ELSE separated_rules(e.rest, <<e.val>>)

\* preceded(whitespace, ...): w is what whitespace returned
preceded_whitespace(w) ==
    IF IsOk(w) THEN separated_list0(w.rest, rule_element(w.rest)) ELSE w

get_rules(input) == preceded_whitespace(whitespace(input))

\* str::trim().is_empty()
trim_is_empty(s) == PrefixLen([k \in DOMAIN s |-> is_whitespace(s[k])]) = Len(s)

\* source?.1 / target?.1: u is what all_consuming(parse_uri) returned
uri_of(rest, u) == IF IsOk(u) THEN Ok(rest, u.val) ELSE u

\* map(get_part, all_consuming(parse_uri))(input)?: t is what get_part
\* returned
map_uri(t) ==
    IF IsOk(t) THEN uri_of(t.rest, all_consuming(parse_uri(t.val))) ELSE t

uri_part(input) == map_uri(get_part(input))

\* get_rules(rest).unwrap(), where rs is the unwrapped result
proxy_rules(source, target, rs) ==
    IF IsOk(rs) THEN Ok(rs.rest, ProxyRule(source, target, rs.val))
    ELSE Panic

\* the rules after the target, which uri_part returned as target
proxy_target(source, target) ==
    IF ~IsOk(target) THEN target
    ELSE IF trim_is_empty(target.rest)
    THEN Ok(target.rest, ProxyRule(source, target.val, <<>>))
    ELSE proxy_rules(source, target.val, unwrap(get_rules(target.rest)))

\* the target after the source, which uri_part returned as source
proxy_source(source) ==
    IF IsOk(source)
    THEN proxy_target(source.val, uri_part(source.rest))
    ELSE source

parse_proxy_rule(input) == proxy_source(uri_part(input))

(***************************************************************************)
(* Document segmenter (markdown_values.rs).                                *)
(***************************************************************************)
Fence == <<BT, BT, BT>>

Unknown == <<"_", "_", "U", "N", "K", "N", "O", "W", "N", "_", "_">>

Line(text) == [kind |-> "Line", text |-> text, lang |-> <<>>, body |-> <<>>]

Codeblock(lang, body) ==
    [kind |-> "Codeblock", text |-> <<>>, lang |-> lang, body |-> body]

\* many1(preceded(not(alt((tag(fence), tag("\n")))), take(1))), joined
parse_plaintext(i) ==
    LET stop == {k \in 0..(Len(i) - 1) :
                    StartsWith(Drop(i, k), Fence) \/ i[k + 1] = "\n"}
        n == IF stop = {} THEN Len(i) ELSE MinOf(stop)
    IN  IF n = 0 THEN Err("Many1") ELSE Ok(Drop(i, n), Take(i, n))

\* alt((map(parse_plaintext, Plaintext),))
parse_markdown_inline(i) == parse_plaintext(i)

\* many0(parse_markdown_inline); r is the inline parsed at i
RECURSIVE many0_inline(_, _), many0_inline_step(_, _, _)
many0_inline_step(i, acc, r) ==
    IF ~IsOk(r) THEN Ok(i, acc)
    ELSE IF Len(r.rest) = Len(i) THEN Err("Many0")
    ELSE many0_inline(r.rest, Append(acc, r.val))

many0_inline(i, acc) == many0_inline_step(i, acc, parse_markdown_inline(i))

\* terminated(..., tag("\n")): r is what many0 returned
terminated_newline(r) ==
    IF ~IsOk(r) THEN r
    ELSE IF StartsWith(r.rest, <<"\n">>) THEN Ok(Drop(r.rest, 1), r.val)
    ELSE Err("Tag")

parse_markdown_text(i) == terminated_newline(many0_inline(i, <<>>))

\* alt((preceded(tag(fence), parse_plaintext), map(tag(fence), unknown)))
parse_code_block_lang(i) ==
    IF ~StartsWith(i, Fence) THEN Err("Tag")
    ELSE alt(parse_plaintext(Drop(i, 3)), Ok(Drop(i, 3), Unknown))

not_backtick(c) == c # BT

\* is_not(fence), tag(fence) after the newline: is_not takes the n
\* characters that are not among the characters of its argument
code_block_body_text(i1, n) ==
    IF n = 0 THEN Err("IsNot")
    ELSE IF StartsWith(Drop(i1, n), Fence)
    THEN Ok(Drop(i1, n + 3), Take(i1, n))
    ELSE Err("Tag")

\* delimited(tag("\n"), is_not(fence), tag(fence))
parse_code_block_body(i) ==
    IF ~StartsWith(i, <<"\n">>) THEN Err("Tag")
    ELSE code_block_body_text(
             Drop(i, 1),
             PrefixLen([k \in 1..(Len(i) - 1) |-> not_backtick(i[k + 1])]))

\* the pair of the tuple: b is what parse_code_block_body returned
code_block_pair(lang, b) ==
    IF IsOk(b) THEN Ok(b.rest, <<lang, b.val>>) ELSE b

\* tuple((parse_code_block_lang, parse_code_block_body)): l is what
\* parse_code_block_lang returned
code_block_tuple(l) ==
    IF IsOk(l) THEN code_block_pair(l.val, parse_code_block_body(l.rest))
    ELSE l

parse_code_block(i) == code_block_tuple(parse_code_block_lang(i))

\* map(parse_code_block, |e| Markdown::Codeblock(e.0, e.1))
map_codeblock(c) ==
    IF IsOk(c) THEN Ok(c.rest, Codeblock(c.val[1], c.val[2])) ELSE c

\* map(parse_markdown_text, |e| Markdown::Line(e))
map_line(t) == IF IsOk(t) THEN Ok(t.rest, Line(t.val)) ELSE t

markdown_element(i) ==
    alt(map_codeblock(parse_code_block(i)), map_line(parse_markdown_text(i)))

\* the loop of many1 after its first element; r is the element parsed at i
RECURSIVE many1_markdown(_, _), many1_markdown_step(_, _, _)
many1_markdown_step(i, acc, r) ==
    IF ~IsOk(r) THEN Ok(i, acc)
    ELSE IF Len(r.rest) = Len(i) THEN Err("Many1")
    ELSE many1_markdown(r.rest, Append(acc, r.val))

many1_markdown(i, acc) == many1_markdown_step(i, acc, markdown_element(i))

\* many1: its first element r
many1_first(r) ==
    IF IsOk(r) THEN many1_markdown(r.rest, <<r.val>>) ELSE r

parse_markdown(i) == many1_first(markdown_element(i))

\* into_parts: (lines, codes)
RECURSIVE into_parts_from(_, _, _)
into_parts_from(md_arr, lines, codes) ==
    IF md_arr = <<>> THEN [lines |-> lines, codes |-> codes]
    ELSE LET m == Head(md_arr)
         IN  IF m.kind = "Line"
             THEN IF m.text = <<>>
                  THEN into_parts_from(Tail(md_arr), lines \o <<"\n">>, codes)
                  ELSE into_parts_from(Tail(md_arr),
                                       lines \o m.text[1] \o <<"\n">>, codes)
             ELSE into_parts_from(Tail(md_arr), lines,
                                  Append(codes, <<m.lang, m.body>>))

\* into_parts with an empty line that contributes nothing
into_parts_drops_empty_lines(md_arr) ==
    into_parts_from(
        SelectSeq(md_arr, LAMBDA m : m.kind # "Line" \/ m.text # <<>>),
        <<>>, <<>>)

into_parts(md_arr) == into_parts_from(md_arr, <<>>, <<>>)

(***************************************************************************)
(* The callers: a text is put together piece by piece and handed to one    *)
(* entry point.                                                            *)
(***************************************************************************)
Input == Flatten(pieces)

Composing(seeds) ==
    /\ pieces \in {<<>>} \cup {<<s>> : s \in seeds}
    /\ pc = "compose"
    /\ op = ""
    /\ arg = <<>>
    /\ result = None
    /\ parts = None

Compose(alphabet, room) ==
    /\ pc = "compose"
    /\ room
    /\ \E p \in alphabet : pieces' = Append(pieces, p)
    /\ UNCHANGED <<pc, op, arg, result, parts>>

Call(name, a, r) ==
    /\ pc = "compose"
    /\ pc' = "done"
    /\ op' = name
    /\ arg' = a
    /\ result' = r
    /\ UNCHANGED <<pieces, parts>>

NoWhitespace(s) == \A i \in 1..Len(s) : ~is_whitespace(s[i])

(***************************************************************************)
(* URI grammar: parse_uri on a text, and the source step of                *)
(* parse_proxy_rule on a line.                                             *)
(***************************************************************************)
MaxUriLen == 6

UriChars == {<<"a">>, <<"-">>, <<":">>, <<"/">>, <<"?">>, <<" ">>}

\* http://example.com/path?q=1
UriSample ==
    <<"h", "t", "t", "p", ":", "/", "/", "e", "x", "a", "m", "p", "l", "e",
      ".", "c", "o", "m", "/", "p", "a", "t", "h", "?", "q", "=", "1">>

InitUri == Composing({UriSample})

ComposeUri == Compose(UriChars, Len(Input) < MaxUriLen)

CallParseUri == Call("parse_uri", Input, parse_uri(Input))

CallUriPart == Call("uri_part", Input, uri_part(Input))

NextUri == ComposeUri \/ CallParseUri \/ CallUriPart

SpecUri == InitUri /\ [][NextUri]_vars

SchemeSep == <<":", "/", "/">>

\* the text starts with one or more alphanumerics followed by ://
StartsWithScheme(s) ==
    \E n \in 1..Len(s) :
        /\ \A i \in 1..n : is_alphanumeric(s[i])
        /\ StartsWith(Drop(s, n), SchemeSep)

Contains(s, c) == \E i \in 1..Len(s) : s[i] = c

UriText(u) ==
    (IF u.scheme # <<>> THEN u.scheme \o SchemeSep ELSE <<>>)
        \o u.host \o u.path \o u.query

UriSampleFields ==
    Uri(<<"h", "t", "t", "p">>,
        <<"e", "x", "a", "m", "p", "l", "e", ".", "c", "o", "m">>,
        <<"/", "p", "a", "t", "h">>,
        <<"?", "q", "=", "1">>)

\* C7: on a whitespace-free token parse_uri leaves nothing, and its four
\* fields partition the token: a scheme only before a leading
\* alphanumerics-then-://, no / in host, no ? in path, query empty or
\* starting with ?, and scheme (with ://), host, path and query concatenate
\* to the token; the all_consuming wrapper of parse_proxy_rule never
\* rejects a token that get_part cut; http://example.com/path?q=1 gives
\* http, example.com, /path, ?q=1.
C7_UriPartitionsToken ==
    /\ (pc = "done" /\ op = "parse_uri" /\ NoWhitespace(arg)) =>
          /\ IsOk(result)
          /\ result.rest = <<>>
          /\ (result.val.scheme # <<>> => StartsWithScheme(arg))
          /\ ~Contains(result.val.host, "/")
          /\ ~Contains(result.val.path, "?")
          /\ (result.val.query = <<>> \/ Head(result.val.query) = "?")
          /\ UriText(result.val) = arg
          /\ (arg = UriSample => result.val = UriSampleFields)
    /\ (pc = "done" /\ op = "uri_part") =>
          /\ result.kind # "Eof"
          /\ (IsOk(result) =>
                 \E k \in 0..Len(arg) :
                     UriText(result.val) \o result.rest = Drop(arg, k))

\* C7 witness: a token with a scheme, a host, a path and a query was parsed
C7_Witness ==
    /\ pc = "done"
    /\ op = "parse_uri"
    /\ NoWhitespace(arg)
    /\ arg # UriSample
    /\ IsOk(result)
    /\ result.val.scheme # <<>>
    /\ result.val.path # <<>>
    /\ result.val.query # <<>>

(***************************************************************************)
(* Rule grammar: parse_template_string, parse_rule_value and parse_rule    *)
(* on a text.                                                              *)
(***************************************************************************)
MaxValueLen == 4

ValueChars ==
    {<<"a">>, <<BT>>, <<"(">>, <<")">>, <<"{">>, <<"}">>, <<"$">>, <<"\\">>,
     <<" ">>, <<U0120>>}

\* auth://`Bearer ${token}`
AuthSample ==
    <<"a", "u", "t", "h", ":", "/", "/", BT, "B", "e", "a", "r", "e", "r",
      " ", "$", "{", "t", "o", "k", "e", "n", "}", BT>>

\* header://{X-Foo
HeaderSample ==
    <<"h", "e", "a", "d", "e", "r", ":", "/", "/", "{", "X", "-", "F", "o",
      "o">>

\* header://{X-Foo}bar
TrailingSample == HeaderSample \o <<"}", "b", "a", "r">>

InitRule ==
    Composing({AuthSample, HeaderSample, HeaderSample \o <<"}">>,
               TrailingSample})

ComposeRule == Compose(ValueChars, Len(Input) < MaxValueLen)

CallParseTemplateString ==
    Call("parse_template_string", Input, parse_template_string(Input))

CallParseRuleValue == Call("parse_rule_value", Input, parse_rule_value(Input))

CallParseRule ==
    \E a \in {Input, <<"a">> \o SchemeSep \o Input} :
        Call("parse_rule", a, parse_rule(a))

NextRule ==
    \/ ComposeRule
    \/ CallParseTemplateString
    \/ CallParseRuleValue
    \/ CallParseRule

SpecRule == InitRule /\ [][NextRule]_vars

\* the text is name://v with a non-empty alphanumeric name
HasRuleName(a) ==
    LET n == FindSub(a, SchemeSep)
    IN  n >= 1 /\ \A i \in 1..n : is_alphanumeric(a[i])

\* the v of name://v
RuleValueToken(a) == Drop(a, FindSub(a, SchemeSep) + 3)

\* a rule value token was parsed, by parse_rule_value or through parse_rule
ValueTokenParsed ==
    /\ pc = "done"
    /\ NoWhitespace(arg)
    /\ op = "parse_rule_value" \/ (op = "parse_rule" /\ HasRuleName(arg))

ValueToken == IF op = "parse_rule" THEN RuleValueToken(arg) ELSE arg

ValueOut == IF op = "parse_rule" THEN result.val.value ELSE result.val

Closer(open) == IF open = "(" THEN ")" ELSE IF open = "{" THEN "}" ELSE BT

KindOf(open) ==
    IF open = "(" THEN "Inline"
    ELSE IF open = "{" THEN "Value" ELSE "TemplateString"

\* C1: a value token that starts with an opening delimiter and has no
\* matching closing delimiter makes the parse fail; it never yields Raw.
C1_UnclosedDelimiterFails ==
    (/\ ValueTokenParsed
     /\ ValueToken # <<>>
     /\ Head(ValueToken) \in {BT, "(", "{"}
     /\ ~Contains(Tail(ValueToken), Closer(Head(ValueToken))))
        => result.tag = "Err"

\* the interior of a backtick-delimited value token
Interior(v) == SubSeq(v, 2, Len(v) - 1)

BacktickDelimited(v) ==
    /\ Len(v) >= 2
    /\ Head(v) = BT
    /\ v[Len(v)] = BT
    /\ ~Contains(Interior(v), BT)

EndsWithLoneBackslash(s) ==
    /\ s # <<>>
    /\ s[Len(s)] = "\\"
    /\ Len(s) = 1 \/ s[Len(s) - 1] # "\\"

UnterminatedInterpolation(s) ==
    \E i \in 1..(Len(s) - 1) :
        /\ s[i] = "$"
        /\ s[i + 1] = "{"
        /\ ~Contains(Drop(s, i + 1), "}")

\* C3: a backtick-delimited value whose interior ends with a lone backslash
\* or holds a ${ with no later } ends in a failure returned to the caller:
\* no panic, no success.
C3_UnterminatedTemplateFails ==
    (/\ ValueTokenParsed
     /\ BacktickDelimited(ValueToken)
     /\ \/ EndsWithLoneBackslash(Interior(ValueToken))
        \/ UnterminatedInterpolation(Interior(ValueToken)))
        => result.tag = "Err"

AuthRule ==
    Rule(<<"a", "u", "t", "h">>,
         OpValue("TemplateString", <<>>,
                 <<RawString(<<"B", "e", "a", "r", "e", "r", " ">>),
                   Value(<<"t", "o", "k", "e", "n">>)>>))

\* C4: parse_rule on auth://`Bearer ${token}` returns the rule auth with
\* the value TemplateString([RawString("Bearer "), Value("token")]).
C4_AuthTemplateRule ==
    (pc = "done" /\ op = "parse_rule" /\ arg = AuthSample)
        => (IsOk(result) /\ result.val = AuthRule)

RECURSIVE ConcatRaw(_)
ConcatRaw(ps) ==
    IF ps = <<>> THEN <<>>
    ELSE (IF Head(ps).kind = "RawString" THEN Head(ps).s ELSE <<>>)
             \o ConcatRaw(Tail(ps))

\* each backslash escape replaced by the escaped character
RECURSIVE Unescape(_)
Unescape(s) ==
    IF s = <<>> THEN <<>>
    ELSE IF Head(s) = "\\" /\ Len(s) >= 2
         THEN <<s[2]>> \o Unescape(Drop(s, 2))
         ELSE <<Head(s)>> \o Unescape(Tail(s))

\* one optional outer ( ... ) wrapper removed
StripParens(s) ==
    IF Len(s) >= 2 /\ Head(s) = "(" /\ s[Len(s)] = ")"
    THEN Interior(s) ELSE s

\* C5: for a template interior without ${, the RawString payloads of the
\* parsed template concatenate to the interior with the outer parentheses
\* stripped and the escapes expanded.
C5_TemplateRoundTrip ==
    (/\ pc = "done"
     /\ op = "parse_template_string"
     /\ FindSub(arg, <<"$", "{">>) < 0
     /\ IsOk(result))
        => ConcatRaw(result.val) = Unescape(StripParens(arg))

\* C10: the value of a rule token name://v accounts for the whole of v: it
\* is a TemplateString, Inline or Value only when v starts with the opening
\* delimiter and the first matching closing delimiter is the last character
\* of v, and otherwise it is Raw with v verbatim.
C10_ValueCoversToken ==
    (/\ ValueTokenParsed
     /\ op = "parse_rule"
     /\ IsOk(result))
        => /\ ValueOut.kind # "Raw" =>
                 /\ Len(ValueToken) >= 2
                 /\ ValueOut.kind = KindOf(Head(ValueToken))
                 /\ FindSub(Tail(ValueToken), <<Closer(Head(ValueToken))>>)
                        = Len(ValueToken) - 2
           /\ ValueOut.kind = "Raw" => ValueOut.s = ValueToken

(***************************************************************************)
(* Proxy-rule grammar: parse_proxy_rule on a line put together from tokens *)
(* and whitespace.                                                         *)
(***************************************************************************)
MaxProxyPieces == 7

\* a, x://1, x://{v}, a space and a vertical tab
ProxyPieces ==
    {<<"a">>,
     <<"x">> \o SchemeSep \o <<"1">>,
     <<"x">> \o SchemeSep \o <<"{", "v", "}">>,
     <<" ">>,
     <<VT>>}

InitProxy == Composing({})

ComposeProxy == Compose(ProxyPieces, Len(pieces) < MaxProxyPieces)

CallParseProxyRule ==
    Call("parse_proxy_rule", Input, parse_proxy_rule(Input))

NextProxy == ComposeProxy \/ CallParseProxyRule

SpecProxy == InitProxy /\ [][NextProxy]_vars

\* the maximal whitespace-free substrings of a line, in order
RECURSIVE Tokens(_)
Tokens(s) ==
    IF s = <<>> THEN <<>>
    ELSE IF is_whitespace(Head(s)) THEN Tokens(Tail(s))
    ELSE LET n == PrefixLen([k \in DOMAIN s |-> ~is_whitespace(s[k])])
         IN  <<Take(s, n)>> \o Tokens(Drop(s, n))

\* C2: when a token after the target is no rule (no ://, or an empty or
\* non-alphanumeric name), parse_proxy_rule returns a failure: no rule
\* list, and no abort.
C2_BadRuleTokenFails ==
    (/\ pc = "done"
     /\ op = "parse_proxy_rule"
     /\ \E i \in 3..Len(Tokens(arg)) : ~HasRuleName(Tokens(arg)[i]))
        => result.tag = "Err"

\* a value token that is bare, or closed by its delimiter at its very end
WellFormedValue(v) ==
    \/ v = <<>>
    \/ Head(v) \notin {BT, "(", "{"}
    \/ /\ Len(v) >= 2
       /\ FindSub(Tail(v), <<Closer(Head(v))>>) = Len(v) - 2
       /\ Head(v) = BT =>
             /\ ~EndsWithLoneBackslash(Interior(v))
             /\ ~UnterminatedInterpolation(Interior(v))
             /\ Head(Interior(v) \o <<"a">>) # "("

WellFormedRuleToken(t) ==
    HasRuleName(t) /\ WellFormedValue(RuleValueToken(t))

\* the rule a well-formed token stands for: its name and the kind of its
\* value, with the payload of a bare or bracketed value
IsRuleOf(r, t) ==
    LET v == RuleValueToken(t)
        delimited_value == v # <<>> /\ Head(v) \in {BT, "(", "{"}
    IN  /\ r.name = Take(t, FindSub(t, SchemeSep))
        /\ r.value.kind = IF delimited_value THEN KindOf(Head(v)) ELSE "Raw"
        /\ r.value.kind = "Raw" => r.value.s = v
        /\ r.value.kind \in {"Inline", "Value"} => r.value.s = Interior(v)

\* C6: a line of a source token, a target token and n >= 0 well-formed rule
\* tokens, separated by runs of whitespace, parses to exactly n rules in
\* the order of the tokens, rules of the same name all kept.
C6_RulesInOrder ==
    (/\ pc = "done"
     /\ op = "parse_proxy_rule"
     /\ Len(Tokens(arg)) >= 2
     /\ \A i \in 3..Len(Tokens(arg)) : WellFormedRuleToken(Tokens(arg)[i]))
        => /\ IsOk(result)
           /\ Len(result.val.rules) = Len(Tokens(arg)) - 2
           /\ \A i \in 1..Len(result.val.rules) :
                  IsRuleOf(result.val.rules[i], Tokens(arg)[i + 2])

(***************************************************************************)
(* Document segmenter: parse_markdown on a document, then into_parts on    *)
(* what it parsed.                                                         *)
(***************************************************************************)
MaxMdPieces == 7

\* a fence, a letter, a line feed and a single backtick
MdPieces == {Fence, <<"a">>, <<"\n">>, <<BT>>}

\* the document of test_markdown
MdSample ==
    <<"\n", "#", " ", "o", "i", "j", "s", "d", "f", "\n", "*", "*", "b",
      "o", "l", "d", " ", "t", "e", "x", "t", "*", "*", "\n", BT, BT, BT,
      "r", "u", "s", "t", "\n", "f", "n", " ", "m", "a", "i", "n", "(", ")",
      " ", "{", "\n", " ", " ", " ", " ", "p", "r", "i", "n", "t", "l", "n",
      "!", "(", "\"", "H", "e", "l", "l", "o", ",", " ", "w", "o", "r", "l",
      "d", "!", "\"", ")", ";", "\n", "}", "\n", BT, BT, BT, "\n", "*", "*",
      "b", "o", "l", "d", "*", "*", "\n", BT, BT, BT, "j", "s", "\n", "c",
      "o", "n", "s", "o", "l", "e", ".", "l", "o", "g", "(", "1", "2", "3",
      "4", ")", "\n", BT, BT, BT, "\n", BT, "i", "n", "l", "i", "n", "e",
      " ", "c", "o", "d", "e", BT, "\n">>

\* the (lines, codes) test_markdown expects of it
MdSampleLines ==
    <<"\n", "#", " ", "o", "i", "j", "s", "d", "f", "\n", "*", "*", "b",
      "o", "l", "d", " ", "t", "e", "x", "t", "*", "*", "\n", "\n", "*",
      "*", "b", "o", "l", "d", "*", "*", "\n", "\n", BT, "i", "n", "l", "i",
      "n", "e", " ", "c", "o", "d", "e", BT, "\n">>

MdSampleRust ==
    <<"f", "n", " ", "m", "a", "i", "n", "(", ")", " ", "{", "\n", " ", " ",
      " ", " ", "p", "r", "i", "n", "t", "l", "n", "!", "(", "\"", "H", "e",
      "l", "l", "o", ",", " ", "w", "o", "r", "l", "d", "!", "\"", ")", ";",
      "\n", "}", "\n">>

MdSampleJs ==
    <<"c", "o", "n", "s", "o", "l", "e", ".", "l", "o", "g", "(", "1", "2",
      "3", "4", ")", "\n">>

MdSampleParts ==
    [lines |-> MdSampleLines,
     codes |-> <<<<<<"r", "u", "s", "t">>, MdSampleRust>>,
                 <<<<"j", "s">>, MdSampleJs>>>>]

InitMd == Composing({MdSample})

ComposeMd == Compose(MdPieces, Len(pieces) < MaxMdPieces)

\* let (rest, md_arr) = parse_markdown(input)
CallParseMarkdown ==
    /\ pc = "compose"
    /\ pc' = "parsed"
    /\ op' = "parse_markdown"
    /\ arg' = Input
    /\ result' = parse_markdown(Input)
    /\ UNCHANGED <<pieces, parts>>

\* into_parts(md_arr), of a document that parsed
CallIntoParts ==
    /\ pc = "parsed"
    /\ IsOk(result)
    /\ pc' = "done"
    /\ parts' = into_parts(result.val)
    /\ UNCHANGED <<pieces, op, arg, result>>

NextMd == ComposeMd \/ CallParseMarkdown \/ CallIntoParts

SpecMd == InitMd /\ [][NextMd]_vars

\* the document holds an opening fence that no later fence closes
RECURSIVE HasUnterminatedFence(_)
HasUnterminatedFence(doc) ==
    IF doc = <<>> THEN FALSE
    ELSE IF StartsWith(doc, Fence)
         THEN \/ FindSub(Drop(doc, 3), Fence) < 0
              \/ HasUnterminatedFence(
                     Drop(doc, FindSub(Drop(doc, 3), Fence) + 6))
         ELSE HasUnterminatedFence(Tail(doc))

\* C8: a document with an opening fence and no closing fence makes
\* parse_markdown fail, also when lines or code blocks precede the fence;
\* no partial sequence is returned.
C8_UnterminatedFenceFails ==
    (/\ pc \in {"parsed", "done"}
     /\ op = "parse_markdown"
     /\ HasUnterminatedFence(arg))
        => result.tag = "Err"

\* what lies between an opening fence at the head of doc and the next fence
FenceInner(doc) == Take(Drop(doc, 3), FindSub(Drop(doc, 3), Fence))

\* the language of a fenced block: what precedes its first line feed
FenceLang(inner) ==
    IF FindSub(inner, <<"\n">>) = 0 THEN Unknown
    ELSE Take(inner, FindSub(inner, <<"\n">>))

\* the body of a fenced block: what follows its first line feed
FenceBody(inner) == Drop(inner, FindSub(inner, <<"\n">>) + 1)

\* the document without its fenced blocks, opening fence through closing
\* fence
RECURSIVE WithoutFences(_)
WithoutFences(doc) ==
    IF doc = <<>> THEN <<>>
    ELSE IF StartsWith(doc, Fence) /\ FindSub(Drop(doc, 3), Fence) >= 0
         THEN WithoutFences(Drop(doc, Len(FenceInner(doc)) + 6))
         ELSE <<Head(doc)>> \o WithoutFences(Tail(doc))

\* the (language, body) pairs of the fenced blocks, in document order
RECURSIVE FencedPairs(_)
FencedPairs(doc) ==
    IF doc = <<>> THEN <<>>
    ELSE IF StartsWith(doc, Fence) /\ FindSub(Drop(doc, 3), Fence) >= 0
         THEN <<<<FenceLang(FenceInner(doc)), FenceBody(FenceInner(doc))>>>>
                  \o FencedPairs(Drop(doc, Len(FenceInner(doc)) + 6))
         ELSE FencedPairs(Tail(doc))

\* C9: for a document parse_markdown consumed entirely, into_parts gives
\* the (language, body) pairs of the fenced blocks in document order, and
\* as text the document without its fenced blocks: every line with its
\* line feed, an empty line as one line feed, nothing of a code block; on
\* the document of test_markdown it gives what the test expects.
C9_IntoPartsSplitsDocument ==
    (/\ pc = "done"
     /\ op = "parse_markdown"
     /\ result.rest = <<>>)
        => /\ parts.codes = FencedPairs(arg)
           /\ parts.lines = WithoutFences(arg)
           /\ arg = MdSample => parts = MdSampleParts

\* C9 witness: a composed document with a line of text and a fenced block
\* was consumed entirely and split
C9_Witness ==
    /\ pc = "done"
    /\ op = "parse_markdown"
    /\ arg # MdSample
    /\ result.rest = <<>>
    /\ Len(parts.codes) >= 1
    /\ Contains(parts.lines, "a")

====
